---- MODULE Spec2Model ----
(***************************************************************************)
(* Model of src/app.py: the invite / feedback service.                     *)
(*                                                                         *)
(* Two tables (Feedback: the invite tokens, UserFeedback: the submitted    *)
(* feedback) are shared by concurrently served requests of two handlers,   *)
(* send_invite and submit_feedback.  A handler is cut into steps at its    *)
(* accesses to the shared store and at its call of the mail transport;     *)
(* everything a handler does between two such points is local to the       *)
(* request and belongs to the step that follows it.                        *)
(***************************************************************************)
EXTENDS Integers, Sequences, FiniteSets, Bags, TLC

VARIABLES
    feedback,       \* rows of table Feedback:     [id, email, submitted]
    userFeedback,   \* rows of table UserFeedback: [id, email, feedback]
    requests,       \* the requests being served and the responses not yet
                    \* delivered: a bag, two requests may be in the same state
    nextUuid,       \* number of uuid4() values drawn so far
    mailLog,        \* attempts of mail.send: [id, email, ok]
    acked,          \* responses "Feedback submitted successfully!" returned: a
                    \* bag of [uuid, feedback]
    admitted        \* entries of the batches accepted so far (bounds the run)

vars == <<feedback, userFeedback, requests, nextUuid, mailLog, acked, admitted>>

----------------------------------------------------------------------------
(* Bounds of the model *)

MaxRequests == 2    \* requests served at the same time
MaxEntries == 2     \* entries in the "emails" arrays of all accepted requests
UuidHexLen == 2     \* hexadecimal digits of a uuid (32 in the program)

----------------------------------------------------------------------------
(* JSON values of the request payloads *)

JStr(s) == [t |-> "str", v |-> s]
JNum == [t |-> "num", v |-> "0"]

\* isinstance(email, str)
IsStr(j) == j.t = "str"

EmailStrings == {"a@x.com", ""}
Entries == {JStr(s) : s \in EmailStrings} \cup {JNum}

RECURSIVE SeqsUpTo(_, _)
SeqsUpTo(S, n) ==
    IF n = 0 THEN {<<>>}
    ELSE LET shorter == SeqsUpTo(S, n - 1)
         IN  shorter \cup {Append(q, x) : q \in {p \in shorter : Len(p) = n - 1}, x \in S}

Batches == SeqsUpTo(Entries, MaxEntries)

\* request.get_json() of send_invite: with or without the key 'emails'
InviteData ==
    {[has |-> FALSE, emails |-> <<>>]} \cup {[has |-> TRUE, emails |-> b] : b \in Batches}

RECURSIVE Zeros(_)
Zeros(k) == IF k = 0 THEN "" ELSE "0" \o Zeros(k - 1)

\* every draw gives the same value
SameUuid(n) == "0-" \o Zeros(UuidHexLen - 2) \o "1"

\* str(uuid.uuid4()): the n-th value drawn, in the canonical form (lower case
\* hexadecimal digits in hyphenated groups); no two draws collide
Uuid(n) == "0-" \o Zeros(UuidHexLen - 2) \o ToString(n)

\* hex.replace('-', '')
RECURSIVE WithoutHyphens(_)
WithoutHyphens(s) ==
    IF s = "" THEN ""
    ELSE LET c == SubSeq(s, 1, 1)
             rest == WithoutHyphens(SubSeq(s, 2, Len(s)))
         IN  IF c = "-" THEN rest ELSE c \o rest

\* texts a client may send as 'uuid': a token issued so far; the same token
\* written without hyphens (a uuid for uuid.UUID, but not the text stored); a
\* well-formed id that is never issued; texts that are no uuid (a digit that
\* is not hexadecimal, too few digits)
UnknownUuid == Uuid(0)
MalformedUuid == "z" \o Zeros(UuidHexLen - 1)
ShortUuid == Zeros(UuidHexLen - 1)
UuidTexts(n) ==
    {Uuid(k) : k \in 1..n} \cup {WithoutHyphens(Uuid(k)) : k \in 1..n}
        \cup {UnknownUuid, MalformedUuid, ShortUuid}

FeedbackTexts == {"", "hi"}

\* request.get_json() of submit_feedback, n tokens having been drawn
SubmitData(n) ==
    {[has |-> FALSE, uuid |-> "", feedback |-> ""]}
        \cup {[has |-> TRUE, uuid |-> u, feedback |-> f] : u \in UuidTexts(n), f \in FeedbackTexts}

----------------------------------------------------------------------------
(* Pure functions *)

HexDigits ==
    {"0", "1", "2", "3", "4", "5", "6", "7", "8", "9",
     "a", "b", "c", "d", "e", "f", "A", "B", "C", "D", "E", "F"}

\* int(hex, 16) does not raise ValueError
IsHex(s) == \A k \in 1..Len(s) : SubSeq(s, k, k) \in HexDigits

\* the test accepts every text
AnyTextIsUuid(u) == TRUE

\* is_valid_uuid: uuid.UUID(uuid_str, version=4) does not raise ValueError,
\* that is the text without its hyphens has the length of a uuid and is a
\* hexadecimal number
is_valid_uuid(u) ==
    LET hex == WithoutHyphens(u)
    IN  Len(hex) = UuidHexLen /\ IsHex(hex)

\* every address passes
AnyEmailValid(e) == TRUE

\* validate_email(address): the syntax check of validate_email_address, a
\* local part and a domain, neither of them empty, around an "@"
validate_email(e) == \E k \in 2..(Len(e) - 1) : SubSeq(e, k, k) = "@"

\* Feedback.query.filter_by(email=email).first(): the rows found
RowsByEmail(fb, e) == {row \in fb : row.email = e}

\* the query has no filter: the first row of the table is found
RowsByIdUnfiltered(fb, u) == fb

\* Feedback.query.filter_by(id=uuid_value).first(): the rows found
RowsById(fb, u) == {row \in fb : row.id = u}

\* the messages of the two lists of send_invite
Msg(k, e) == [kind |-> k, email |-> e]

----------------------------------------------------------------------------
(* The store *)

\* the duplicate check finds nothing
NeverInvited(fb, e) == FALSE

\* the duplicate check leaves out the tokens that are redeemed
NotYetRedeemed(fb, e) == \E row \in RowsByEmail(fb, e) : ~row.submitted

\* Feedback.query.filter_by(email=email).first() is not None
AlreadyInvited(fb, e) == RowsByEmail(fb, e) # {}

\* the row is added but not committed before the mail is sent
InsertInviteDeferred(fb, id, e) == fb

\* db.session.add(Feedback(id=feedback_id, email=email)); db.session.commit()
\* (column submitted takes its default, False)
InsertInvite(fb, id, e) == fb \cup {[id |-> id, email |-> e, submitted |-> FALSE]}

\* the check of the flag is missing
SubmittedIgnored(entry) == FALSE

\* feedback_entry.submitted
Submitted(entry) == entry.submitted

\* UserFeedback.id is no key
NoPrimaryKey(uf, u) == TRUE

\* the primary key of UserFeedback.id: the INSERT of a second row with the
\* same id fails (IntegrityError) and the transaction is rolled back
PrimaryKeyFree(uf, u) == RowsById(uf, u) = {}

\* the body is not stored
InsertUserFeedbackNoBody(uf, u, e, f) == uf \cup {[id |-> u, email |-> e, feedback |-> ""]}

\* db.session.add(UserFeedback(id=uuid_value, email=..., feedback=...))
InsertUserFeedback(uf, u, e, f) == uf \cup {[id |-> u, email |-> e, feedback |-> f]}

\* the UPDATE has no WHERE clause
MarkSubmittedAll(fb, u) == {[row EXCEPT !.submitted = TRUE] : row \in fb}

\* the flag is not written with the record
MarkSubmittedLost(fb, u) == fb

\* feedback_entry.submitted = True, flushed as UPDATE ... WHERE id = <primary key>
MarkSubmitted(fb, u) ==
    {IF row.id = u THEN [row EXCEPT !.submitted = TRUE] ELSE row : row \in fb}

----------------------------------------------------------------------------
(* Requests *)

NewInvite ==
    [kind |-> "invite", pc |-> "check", has |-> FALSE, emails |-> <<>>, i |-> 0,
     feedback_id |-> "", success |-> <<>>, error |-> <<>>, status |-> 0, message |-> ""]

NewSubmit ==
    [kind |-> "submit", pc |-> "commit", has |-> FALSE, uuid |-> "", feedback |-> "",
     email |-> "", status |-> 0, message |-> ""]

Active == BagToSet(requests)

\* no request is being served
Quiet == requests = EmptyBag

\* every response returned so far has reached its client.  A response is read
\* by no handler, so the steps of the other requests do not depend on it: it
\* is delivered before the next step of any request.
Delivered == \A req \in Active : req.pc # "done"

\* a worker is free to take a request
Free == BagCardinality(requests) < MaxRequests

\* a request arrives and reaches the state req
Serve(req) == requests (+) SetToBag({req})

\* the request in state old goes on to the state req
Continue(old, req) == (requests (-) SetToBag({old})) (+) SetToBag({req})

\* the entries are not checked to be strings
InvalidArrayEmptyOnly(emails) == emails = <<>>

\* `not emails or not all(isinstance(email, str) for email in emails)`
InvalidArray(emails) == emails = <<>> \/ \E k \in 1..Len(emails) : ~IsStr(emails[k])

\* the end of one pass of `for email in emails`: the next entry, or the
\* return of jsonify(success=..., error=...)
NextEntry(req) ==
    IF req.i = Len(req.emails)
    THEN [req EXCEPT !.pc = "done", !.status = 200, !.feedback_id = ""]
    ELSE [req EXCEPT !.pc = "check", !.i = @ + 1]

\* the `continue` is missing: the entry goes on to be issued
OnDuplicateFallsThrough(req, email) ==
    [req EXCEPT !.error = Append(@, Msg("already invited", email)), !.pc = "commit"]

\* `error_messages.append(f"Email '{email}' already invited!"); continue`
OnDuplicate(req, email) ==
    NextEntry([req EXCEPT !.error = Append(@, Msg("already invited", email))])

\* the message is put at the head of the list
OnSentPrepended(req, email) ==
    NextEntry([req EXCEPT !.success = <<Msg("sent", email)>> \o @])

\* mail.send returned: `success_messages.append(...)`
OnSent(req, email) ==
    NextEntry([req EXCEPT !.success = Append(@, Msg("sent", email))])

\* the token is taken back when its mail cannot be sent
RollBackInvite(fb, id) == fb \ RowsById(fb, id)

\* mail.send raised: the `except` clause leaves the session alone, the row
\* committed before the send stays
KeepInvite(fb, id) == fb

\* mail.send raised: `except Exception as e: error_messages.append(...)`
OnSendError(req, email) ==
    NextEntry([req EXCEPT !.error = Append(@, Msg("send error", email))])

\* a payload refused before the store is read.  Such a request reads and
\* writes nothing that is shared, so every interleaving of it with other
\* requests equals one in which it is served alone: it is served alone.
RefusedInvite(d) == ~d.has \/ InvalidArray(d.emails)
RefusedSubmit(d) == ~d.has \/ ~is_valid_uuid(d.uuid)

Init ==
    /\ feedback = {}
    /\ userFeedback = {}
    /\ requests = EmptyBag
    /\ nextUuid = 0
    /\ mailLog = {}
    /\ acked = EmptyBag
    /\ admitted = 0

----------------------------------------------------------------------------
(* send_invite *)

\* the request arrives: the payload checks, up to the head of the loop
InviteStart(d) ==
    /\ Delivered
    /\ Free
    /\ IF RefusedInvite(d) THEN Quiet ELSE admitted + Len(d.emails) <= MaxEntries
    /\ requests' = Serve(
          IF ~d.has
          THEN [NewInvite EXCEPT !.pc = "done", !.status = 400,
                                 !.message = "No 'emails' key found"]
          ELSE IF InvalidArray(d.emails)
          THEN [NewInvite EXCEPT !.pc = "done", !.has = TRUE, !.emails = d.emails,
                                 !.status = 400, !.message = "Invalid or empty email array"]
          ELSE [NewInvite EXCEPT !.has = TRUE, !.emails = d.emails, !.i = 1])
    /\ admitted' = IF RefusedInvite(d) THEN admitted ELSE admitted + Len(d.emails)
    /\ UNCHANGED <<feedback, userFeedback, nextUuid, mailLog, acked>>

\* the duplicate check of the current entry
InviteCheck(req) ==
    LET email == req.emails[req.i].v
    IN  /\ Delivered
        /\ req.kind = "invite"
        /\ req.pc = "check"
        /\ requests' = Continue(req,
              IF AlreadyInvited(feedback, email)
              THEN OnDuplicate(req, email)
              ELSE [req EXCEPT !.pc = "commit"])
        /\ UNCHANGED <<feedback, userFeedback, nextUuid, mailLog, acked, admitted>>

\* the token is drawn, added and committed
InviteCommit(req) ==
    LET email == req.emails[req.i].v
        feedback_id == Uuid(nextUuid + 1)
    IN  /\ Delivered
        /\ req.kind = "invite"
        /\ req.pc = "commit"
        /\ nextUuid' = nextUuid + 1
        /\ feedback' = InsertInvite(feedback, feedback_id, email)
        /\ requests' = Continue(req,
              [req EXCEPT !.pc = "send", !.feedback_id = feedback_id])
        /\ UNCHANGED <<userFeedback, mailLog, acked, admitted>>

\* mail.send(msg) returns (ok) or raises (~ok)
InviteSend(req, ok) ==
    LET email == req.emails[req.i].v
    IN  /\ Delivered
        /\ req.kind = "invite"
        /\ req.pc = "send"
        /\ mailLog' = mailLog \cup {[id |-> req.feedback_id, email |-> email, ok |-> ok]}
        /\ requests' = Continue(req,
              IF ok THEN OnSent(req, email) ELSE OnSendError(req, email))
        /\ feedback' = IF ok THEN feedback ELSE KeepInvite(feedback, req.feedback_id)
        /\ UNCHANGED <<userFeedback, nextUuid, acked, admitted>>

----------------------------------------------------------------------------
(* submit_feedback *)

SubmitDone(d, status, message) ==
    [NewSubmit EXCEPT !.pc = "done", !.has = d.has, !.uuid = d.uuid,
                      !.feedback = d.feedback, !.status = status, !.message = message]

\* the request arrives: the payload checks, the lookup of the token and the
\* checks of the row found
SubmitStart(d) ==
    LET rows == RowsById(feedback, d.uuid)
        feedback_entry == CHOOSE row \in rows : TRUE
    IN  /\ Delivered
        /\ Free
        /\ RefusedSubmit(d) => Quiet
        /\ requests' = Serve(
              IF ~d.has
              THEN SubmitDone(d, 400, "MissingFields")
              ELSE IF ~is_valid_uuid(d.uuid)
              THEN SubmitDone(d, 400, "InvalidFormat")
              ELSE IF rows = {}
              THEN SubmitDone(d, 404, "NotFound")
              ELSE IF Submitted(feedback_entry)
              THEN SubmitDone(d, 400, "AlreadyRedeemed")
              ELSE IF ~validate_email(feedback_entry.email)
              THEN SubmitDone(d, 400, "InvalidRecipient")
              ELSE [NewSubmit EXCEPT !.has = TRUE, !.uuid = d.uuid,
                                     !.feedback = d.feedback,
                                     !.email = feedback_entry.email])
        /\ UNCHANGED <<feedback, userFeedback, nextUuid, mailLog, acked, admitted>>

\* the record and the flag are flushed and committed in one transaction
SubmitCommit(req) ==
    /\ Delivered
    /\ req.kind = "submit"
    /\ req.pc = "commit"
    /\ IF PrimaryKeyFree(userFeedback, req.uuid)
       THEN /\ userFeedback' =
                  InsertUserFeedback(userFeedback, req.uuid, req.email, req.feedback)
            /\ feedback' = MarkSubmitted(feedback, req.uuid)
            /\ requests' = Continue(req,
                  [req EXCEPT !.pc = "done", !.status = 200, !.message = "Ack"])
            /\ acked' = acked (+) SetToBag({[uuid |-> req.uuid, feedback |-> req.feedback]})
       ELSE /\ requests' = Continue(req,
                  [req EXCEPT !.pc = "done", !.status = 500, !.message = "IntegrityError"])
            /\ UNCHANGED <<feedback, userFeedback, acked>>
    /\ UNCHANGED <<nextUuid, mailLog, admitted>>

----------------------------------------------------------------------------
(* The response of a finished request reaches its client; the worker is free *)

Deliver(req) ==
    /\ req.pc = "done"
    /\ requests' = requests (-) SetToBag({req})
    /\ UNCHANGED <<feedback, userFeedback, nextUuid, mailLog, acked, admitted>>

----------------------------------------------------------------------------
(* Specifications *)

ArriveInvite == \E d \in InviteData : InviteStart(d)
ArriveSubmit == \E d \in SubmitData(nextUuid) : SubmitStart(d)
StepCheck == \E req \in Active : InviteCheck(req)
StepCommit == \E req \in Active : InviteCommit(req)
StepSend == \E req \in Active, ok \in BOOLEAN : InviteSend(req, ok)
StepRedeem == \E req \in Active : SubmitCommit(req)
Respond == \E req \in Active : Deliver(req)

\* requests are served concurrently
Next ==
    \/ ArriveInvite
    \/ ArriveSubmit
    \/ StepCheck
    \/ StepCommit
    \/ StepSend
    \/ StepRedeem
    \/ Respond

Spec == Init /\ [][Next]_vars

\* requests are served one after the other
SeqArriveInvite == Quiet /\ ArriveInvite
SeqArriveSubmit == Quiet /\ ArriveSubmit

SeqNext ==
    \/ SeqArriveInvite
    \/ SeqArriveSubmit
    \/ StepCheck
    \/ StepCommit
    \/ StepSend
    \/ StepRedeem
    \/ Respond

SeqSpec == Init /\ [][SeqNext]_vars

----------------------------------------------------------------------------
(* Properties *)

\* a request that arrives with this step, in the state it reaches
Arrived(req) ==
    /\ BagCardinality(requests') > BagCardinality(requests)
    /\ CopiesIn(req, requests') > CopiesIn(req, requests)

\* a request that takes this step, in the state it leaves
Stepped(req) ==
    /\ BagCardinality(requests') = BagCardinality(requests)
    /\ CopiesIn(req, requests') < CopiesIn(req, requests)

\* the state a request that takes this step reaches
Reached(req) ==
    /\ BagCardinality(requests') = BagCardinality(requests)
    /\ CopiesIn(req, requests') > CopiesIn(req, requests)

Range(q) == {q[k] : k \in 1..Len(q)}

\* C1: whatever the interleaving of concurrent send_invite requests, no state
\* holds two tokens with the same email.
C1_OneTokenPerEmail ==
    \A e \in EmailStrings : Cardinality(RowsByEmail(feedback, e)) <= 1

\* C2: of the submit_feedback requests for one token at most one is
\* acknowledged, and the records stored for the token are exactly one, with the
\* body of the acknowledged request; nothing is stored without an
\* acknowledgement.
C2_OneAckPerToken ==
    /\ \A a \in BagToSet(acked) :
          /\ CopiesIn(a, acked) = 1
          /\ \A b \in BagToSet(acked) : b.uuid = a.uuid => b = a
          /\ \E rec \in RowsById(userFeedback, a.uuid) : rec.feedback = a.feedback
    /\ \A rec \in userFeedback :
          /\ RowsById(userFeedback, rec.id) = {rec}
          /\ [uuid |-> rec.id, feedback |-> rec.feedback] \in BagToSet(acked)

\* two requests for one token both passed the check of the flag; one was
\* acknowledged, the other, with another body, failed at its commit
C2_Witness ==
    \E req \in Active :
        /\ req.kind = "submit"
        /\ req.message = "IntegrityError"
        /\ \E a \in BagToSet(acked) : a.uuid = req.uuid /\ a.feedback # req.feedback

\* C3: in every committed state a UserFeedback record with id t exists if and
\* only if the Feedback row with id t has submitted = TRUE.
C3_RecordIffRedeemed ==
    /\ \A row \in feedback : row.submitted <=> RowsById(userFeedback, row.id) # {}
    /\ \A rec \in userFeedback : \E row \in RowsById(feedback, rec.id) : row.submitted

\* a redeem was aborted at its commit, beside a redeemed and an unredeemed token
C3_Witness ==
    /\ \E req \in Active : req.kind = "submit" /\ req.status = 500
    /\ \E row \in feedback : row.submitted
    /\ \E row \in feedback : ~row.submitted

\* C4: a submit_feedback request that arrives when a record is stored for its
\* token is answered AlreadyRedeemed, and no step changes or removes a stored
\* record.
C4_RedeemedStays ==
    [][/\ \A req \in BagToSet(requests') :
              (/\ Arrived(req)
               /\ req.kind = "submit"
               /\ req.has
               /\ RowsById(userFeedback, req.uuid) # {})
                  => req.pc = "done" /\ req.message = "AlreadyRedeemed"
       /\ \A rec \in userFeedback : RowsById(userFeedback', rec.id) = {rec}]_vars

\* a second redeem, with another body, has been answered AlreadyRedeemed
C4_Witness ==
    \E req \in Active :
        /\ req.kind = "submit"
        /\ req.message = "AlreadyRedeemed"
        /\ \E rec \in RowsById(userFeedback, req.uuid) :
              rec.feedback # req.feedback /\ rec.feedback # ""

\* C5: when requests are served one after the other, no two tokens are ever
\* stored for one email, and a duplicate check that finds a token for the
\* email reports "already invited" and leaves the table as it is.
C5_SecondIssueRejected ==
    [][/\ \A e \in EmailStrings : Cardinality(RowsByEmail(feedback', e)) <= 1
       /\ \A req \in Active :
              (/\ Stepped(req)
               /\ req.kind = "invite"
               /\ req.pc = "check"
               /\ RowsByEmail(feedback, req.emails[req.i].v) # {})
                  => /\ feedback' = feedback
                     /\ \E nxt \in BagToSet(requests') :
                           /\ Reached(nxt)
                           /\ nxt.success = req.success
                           /\ nxt.error =
                                Append(req.error, Msg("already invited", req.emails[req.i].v))]_vars

\* a second issue was rejected for an email whose token is already redeemed
C5_Witness ==
    \E req \in Active :
        /\ req.kind = "invite"
        /\ req.pc = "done"
        /\ \E m \in Range(req.error) :
              /\ m.kind = "already invited"
              /\ \E row \in RowsByEmail(feedback, m.email) : row.submitted

\* C6: no record with an empty body is ever stored (a redeem with the empty
\* string is refused and leaves the token unredeemed).
C6_EmptyBodyRefused ==
    /\ \A rec \in userFeedback : rec.feedback # ""
    /\ \A a \in BagToSet(acked) : a.feedback # ""

\* C7: a step in which mail.send fails leaves both tables as they are, the
\* token it was sent for is still stored, and the failure is appended to the
\* error list of the request; a later submit_feedback for such a token, while
\* it is unredeemed, is let through to its commit.
C7_TokenSurvivesSendError ==
    [][/\ \A a \in mailLog' \ mailLog :
              ~a.ok =>
                 /\ feedback' = feedback
                 /\ userFeedback' = userFeedback
                 /\ \E row \in RowsById(feedback', a.id) : row.email = a.email
                 /\ \E req \in Active, nxt \in BagToSet(requests') :
                       /\ Stepped(req)
                       /\ Reached(nxt)
                       /\ nxt.success = req.success
                       /\ nxt.error = Append(req.error, Msg("send error", a.email))
       /\ \A a \in mailLog :
              ~a.ok => \E row \in RowsById(feedback', a.id) : row.email = a.email
       /\ \A req \in BagToSet(requests') :
              (/\ Arrived(req)
               /\ req.kind = "submit"
               /\ req.has
               /\ \E a \in mailLog :
                     /\ ~a.ok
                     /\ a.id = req.uuid
                     /\ validate_email(a.email)
                     /\ RowsById(userFeedback, a.id) = {})
                  => req.pc = "commit"]_vars

\* a token whose notification failed has been redeemed
C7_Witness ==
    \E a \in mailLog :
        /\ ~a.ok
        /\ \E row \in RowsById(feedback, a.id) : row.submitted
        /\ RowsById(userFeedback, a.id) # {}

\* the next step of a request that is being served
StepOf(req) ==
    \/ InviteCheck(req)
    \/ InviteCommit(req)
    \/ InviteSend(req, TRUE)
    \/ SubmitCommit(req)

\* C8: whenever mail.send is about to run or has run for a token, the token's
\* row is committed; and while a request waits in mail.send, every other
\* request being served can take its next step and new requests are taken.
C8_IssueThenNotify ==
    /\ \A req \in Active :
          (req.kind = "invite" /\ req.pc = "send")
             => \E row \in RowsById(feedback, req.feedback_id) :
                   row.email = req.emails[req.i].v
    /\ \A a \in mailLog : \E row \in RowsById(feedback, a.id) : row.email = a.email
    /\ \A req \in Active :
          (req.kind = "invite" /\ req.pc = "send" /\ Delivered)
             => /\ \A other \in Active :
                      (other # req \/ CopiesIn(req, requests) > 1) => ENABLED StepOf(other)
                /\ Free => ENABLED ArriveSubmit
                /\ (Free /\ admitted < MaxEntries) => ENABLED ArriveInvite

\* a redeem and a second invite are in flight while a request waits in mail.send
C8_Witness ==
    /\ \E req \in Active : req.kind = "invite" /\ req.pc = "send"
    /\ \E req \in Active : req.kind = "submit" /\ req.pc = "commit"

\* the entries of a request that the loop is done with
Reported(req) ==
    IF req.pc = "done" THEN 1..Len(req.emails) ELSE 1..(req.i - 1)

\* the entries of a request that the loop has dealt with: those it is done
\* with and the one whose mail is being sent
Processed(req) ==
    IF req.pc = "send" THEN 1..req.i ELSE Reported(req)

\* the messages of the list q that are about the email e
About(q, e) == {k \in 1..Len(q) : q[k].email = e}

\* C9 as claimed: in every response of send_invite each entry that is no
\* string or is empty has a message in the error list and no token, and every
\* other entry of the batch has been processed.
C9_InvalidEntryRejectedAlone ==
    \A req \in Active :
        (req.kind = "invite" /\ req.pc = "done" /\ req.has)
           => \A k \in 1..Len(req.emails) :
                 IF ~IsStr(req.emails[k]) \/ req.emails[k].v = ""
                 THEN /\ About(req.error, req.emails[k].v) # {}
                      /\ RowsByEmail(feedback, req.emails[k].v) = {}
                 ELSE About(req.success, req.emails[k].v)
                         \cup About(req.error, req.emails[k].v) # {}

\* C9 as amended: a batch that is empty or holds an entry that is no string is
\* refused as a whole (400) with both lists empty and the store untouched;
\* every other batch is accepted, and each entry the loop has dealt with, the
\* empty string included, has a token in the store.
C9_InvalidBatchRefusedWhole ==
    [][/\ \A req \in BagToSet(requests') :
              (Arrived(req) /\ req.kind = "invite" /\ req.has)
                 => IF req.emails = <<>> \/ \E k \in 1..Len(req.emails) : ~IsStr(req.emails[k])
                    THEN /\ req.pc = "done"
                         /\ req.status = 400
                         /\ req.success = <<>>
                         /\ req.error = <<>>
                         /\ feedback' = feedback
                         /\ mailLog' = mailLog
                    ELSE req.pc = "check" /\ req.i = 1
       /\ \A req \in BagToSet(requests') :
              (req.kind = "invite" /\ req.has /\ req.status # 400)
                 => \A k \in Processed(req) :
                       RowsByEmail(feedback', req.emails[k].v) # {}]_vars

\* a batch with a valid address and a number was refused, no token was issued
\* for the address, and a token is stored for the empty string
C9_Witness ==
    /\ \E req \in Active :
          /\ req.kind = "invite"
          /\ req.status = 400
          /\ \E k \in 1..Len(req.emails) : ~IsStr(req.emails[k])
          /\ \E k \in 1..Len(req.emails) : req.emails[k] = JStr("a@x.com")
    /\ RowsByEmail(feedback, "a@x.com") = {}
    /\ RowsByEmail(feedback, "") # {}

\* C10 as claimed: in every response of send_invite the two lists together
\* hold as many messages as the batch has entries.
C10_EveryEntryReported ==
    \A req \in Active :
        (req.kind = "invite" /\ req.pc = "done" /\ req.has)
           => Len(req.success) + Len(req.error) = Len(req.emails)

\* C10 as amended: of a batch that passes the check of its shape, every entry
\* the loop is done with has exactly one message, in one of the two lists; a
\* batch that is refused has none.
C10_EveryAcceptedEntryReported ==
    \A req \in Active :
        req.kind = "invite"
           => IF req.status = 400
              THEN req.success = <<>> /\ req.error = <<>>
              ELSE /\ Len(req.success) + Len(req.error) = Cardinality(Reported(req))
                   /\ \A e \in EmailStrings :
                         Cardinality(About(req.success, e)) + Cardinality(About(req.error, e))
                            = Cardinality({k \in Reported(req) : req.emails[k].v = e})

\* a batch of two was answered with a duplicate and a notifier failure
C10_Witness ==
    \E req \in Active :
        /\ req.kind = "invite"
        /\ req.pc = "done"
        /\ req.status = 200
        /\ Len(req.emails) = 2
        /\ \E m \in Range(req.error) : m.kind = "already invited"
        /\ \E m \in Range(req.error) : m.kind = "send error"

\* C11: a submit_feedback request whose uuid is well formed and is the id of
\* no Feedback row is answered NotFound (404), whatever was answered before,
\* and its step leaves both tables, the uuids drawn and the acknowledgements
\* as they are.
C11_UnknownTokenNotFound ==
    [][\A req \in BagToSet(requests') :
          (/\ Arrived(req)
           /\ req.kind = "submit"
           /\ req.has
           /\ is_valid_uuid(req.uuid)
           /\ \A row \in feedback : row.id # req.uuid)
              => /\ req.pc = "done"
                 /\ req.status = 404
                 /\ req.message = "NotFound"
                 /\ feedback' = feedback
                 /\ userFeedback' = userFeedback
                 /\ nextUuid' = nextUuid
                 /\ acked' = acked]_vars

\* NotFound was answered for the id of a stored token written without hyphens
C11_Witness ==
    \E req \in Active :
        /\ req.kind = "submit"
        /\ req.message = "NotFound"
        /\ \E row \in feedback : req.uuid = WithoutHyphens(row.id)

\* C12: a submit_feedback request whose uuid is no uuid (a digit that is not
\* hexadecimal, too few digits) is answered InvalidFormat (400) whatever the
\* tables hold, and its step leaves them as they are; NotFound is answered
\* only for a text that is none of these and is the id of no row; and no
\* request with such a text is answered anything else or waits for its commit.
C12_FormatCheckedFirst ==
    [][/\ \A req \in BagToSet(requests') :
              (/\ Arrived(req)
               /\ req.kind = "submit"
               /\ req.has
               /\ req.uuid \in {MalformedUuid, ShortUuid})
                  => /\ req.pc = "done"
                     /\ req.status = 400
                     /\ req.message = "InvalidFormat"
                     /\ feedback' = feedback
                     /\ userFeedback' = userFeedback
                     /\ acked' = acked
       /\ \A req \in BagToSet(requests') :
              (Arrived(req) /\ req.kind = "submit" /\ req.message = "NotFound")
                 => /\ req.uuid \notin {MalformedUuid, ShortUuid}
                    /\ \A row \in feedback : row.id # req.uuid
       /\ \A req \in BagToSet(requests') :
              (req.kind = "submit" /\ req.has /\ req.uuid \in {MalformedUuid, ShortUuid})
                 => req.pc = "done" /\ req.message = "InvalidFormat"]_vars

\* both malformed texts have been answered InvalidFormat while tokens are
\* stored, one of them redeemed
C12_Witness ==
    /\ \E req \in Active :
          /\ req.kind = "submit"
          /\ req.message = "InvalidFormat"
          /\ req.uuid \in {MalformedUuid, ShortUuid}
    /\ \E row \in feedback : row.submitted
    /\ \E row \in feedback : ~row.submitted

\* C13: the step that commits a token stores exactly one row under the id it
\* drew, with the email of the entry and submitted = FALSE; no row stored
\* before has that id, and the rows stored before stay as they are.
C13_IssuedTokenStoredFresh ==
    [][\A req \in Active :
          (Stepped(req) /\ req.kind = "invite" /\ req.pc = "commit")
             => \E nxt \in BagToSet(requests') :
                   /\ Reached(nxt)
                   /\ nxt.pc = "send"
                   /\ RowsById(feedback', nxt.feedback_id) =
                         {[id |-> nxt.feedback_id, email |-> req.emails[req.i].v,
                           submitted |-> FALSE]}
                   /\ \A row \in feedback : row.id # nxt.feedback_id
                   /\ feedback' = feedback \cup RowsById(feedback', nxt.feedback_id)]_vars

\* a token has just been committed beside a token stored before, for another
\* email
C13_Witness ==
    \E req \in Active :
        /\ req.kind = "invite"
        /\ req.pc = "send"
        /\ \E row \in RowsById(feedback, req.feedback_id) :
              row.email = req.emails[req.i].v /\ ~row.submitted
        /\ \E row \in feedback :
              row.id # req.feedback_id /\ row.email # req.emails[req.i].v

\* C14: no step removes a Feedback row or changes its id or email; the flag
\* submitted never goes back to FALSE, and it goes from FALSE to TRUE only in
\* a step that stores the record of the token and acknowledges a
\* submit_feedback request for it; no step changes or removes a UserFeedback
\* record.
C14_TokenLifecycle ==
    [][/\ \A row \in feedback :
              \E nrow \in feedback' :
                 /\ RowsById(feedback', row.id) \ RowsById(feedback, row.id) \subseteq {nrow}
                 /\ nrow.id = row.id
                 /\ nrow.email = row.email
                 /\ row.submitted => nrow = row
                 /\ nrow.submitted # row.submitted
                       => /\ RowsById(userFeedback, row.id) = {}
                          /\ RowsById(userFeedback', row.id) # {}
                          /\ \E req \in Active :
                                /\ Stepped(req)
                                /\ req.kind = "submit"
                                /\ req.uuid = row.id
                                /\ acked' = acked (+)
                                      SetToBag({[uuid |-> row.id, feedback |-> req.feedback]})
       /\ userFeedback \subseteq userFeedback'
       /\ \A rec \in userFeedback' \ userFeedback : RowsById(userFeedback, rec.id) = {}]_vars

\* of two tokens one has been redeemed and acknowledged, the other, issued
\* before it, is still unredeemed
C14_Witness ==
    \E row \in feedback, other \in feedback :
        /\ row.submitted
        /\ ~other.submitted
        /\ row.id = Uuid(2)
        /\ other.id = Uuid(1)
        /\ \E a \in BagToSet(acked) : a.uuid = row.id

\* C15: every UserFeedback record has the id of a Feedback row and the email
\* of that row; the step that stores a record stores the uuid and the body
\* of the request and the email of the row, and nothing else.
C15_RecordFromToken ==
    [][/\ \A rec \in userFeedback' :
              \E row \in feedback' : row.id = rec.id /\ row.email = rec.email
       /\ \A req \in Active :
              (Stepped(req) /\ req.kind = "submit" /\ userFeedback' # userFeedback)
                 => \E row \in RowsById(feedback, req.uuid) :
                       userFeedback' = userFeedback \cup
                          {[id |-> row.id, email |-> row.email, feedback |-> req.feedback]}]_vars

\* a record with a body is stored for one token while a token of another
\* email is stored
C15_Witness ==
    \E rec \in userFeedback :
        /\ rec.feedback = "hi"
        /\ \E row \in feedback : row.id = rec.id /\ row.email = rec.email
        /\ \E row \in feedback : row.id # rec.id /\ row.email # rec.email

\* C16: a submit_feedback request that arrives for a stored, unredeemed token
\* whose email is no address (the empty string) is answered InvalidRecipient
\* (400), and its step leaves both tables and the acknowledgements as they
\* are: the token stays unredeemed and no record is stored.
C16_InvalidRecipientRefused ==
    [][\A req \in BagToSet(requests') :
          (/\ Arrived(req)
           /\ req.kind = "submit"
           /\ req.has
           /\ \E row \in feedback : row.id = req.uuid /\ ~row.submitted /\ row.email = "")
              => /\ req.pc = "done"
                 /\ req.status = 400
                 /\ req.message = "InvalidRecipient"
                 /\ feedback' = feedback
                 /\ userFeedback' = userFeedback
                 /\ acked' = acked]_vars

\* a redeem with a body was answered InvalidRecipient; the token is unredeemed
\* and has no record
C16_Witness ==
    \E req \in Active :
        /\ req.kind = "submit"
        /\ req.message = "InvalidRecipient"
        /\ req.feedback = "hi"
        /\ \E row \in RowsById(feedback, req.uuid) : ~row.submitted
        /\ RowsById(userFeedback, req.uuid) = {}

\* C17: every request that fails is answered by its handler with one of the
\* errors it declares (400 or 404 with a message); no exception leaves a
\* handler.
C17_NoEscapedException ==
    \A req \in Active :
        (req.pc = "done" /\ req.status # 200)
           => /\ req.status \in {400, 404}
              /\ req.message \in {"No 'emails' key found", "Invalid or empty email array",
                                  "MissingFields", "InvalidFormat", "NotFound",
                                  "AlreadyRedeemed", "InvalidRecipient"}

\* the ways of telling, for each message of the list q, the entry of the
\* request it is about, later messages being about later entries
InOrder(req, q) ==
    {f \in [1..Len(q) -> Reported(req)] :
        /\ \A k \in 1..Len(q) : req.emails[f[k]].v = q[k].email
        /\ \A j, k \in 1..Len(q) : j < k => f[j] < f[k]}

\* C18: in each of the two lists of a send_invite request the messages stand
\* in the order of the entries they are about: the messages can be told to
\* entries, each entry to one message of one list, so that in either list a
\* later message is about a later entry of the batch.
C18_ListsKeepBatchOrder ==
    \A req \in Active :
        (req.kind = "invite" /\ req.status # 400)
           => \E f \in InOrder(req, req.success), g \in InOrder(req, req.error) :
                 /\ Range(f) \cap Range(g) = {}
                 /\ Range(f) \cup Range(g) = Reported(req)

\* a batch of two emails was answered with two messages in one list
C18_Witness ==
    \E req \in Active :
        /\ req.kind = "invite"
        /\ req.pc = "done"
        /\ Len(req.emails) = 2
        /\ req.emails[1] # req.emails[2]
        /\ Len(req.success) = 2 \/ Len(req.error) = 2

\* C19: when requests are served one after the other, mail.send is called at
\* most once for an email; a duplicate check that finds a token for the
\* email, redeemed or not, notified or not, reports "already invited" and
\* sends nothing; and no success list holds an email whose mail failed.
C19_OneSendPerEmail ==
    [][/\ \A a \in mailLog', b \in mailLog' : a.email = b.email => a = b
       /\ \A req \in Active :
              (/\ Stepped(req)
               /\ req.kind = "invite"
               /\ req.pc = "check"
               /\ \E row \in feedback : row.email = req.emails[req.i].v)
                  => /\ mailLog' = mailLog
                     /\ nextUuid' = nextUuid
                     /\ \E nxt \in BagToSet(requests') :
                           /\ Reached(nxt)
                           /\ nxt.pc \in {"check", "done"}
                           /\ nxt.success = req.success
                           /\ Len(nxt.error) = Len(req.error) + 1
                           /\ nxt.error[Len(nxt.error)] =
                                 Msg("already invited", req.emails[req.i].v)
       /\ \A a \in mailLog', req \in BagToSet(requests') :
              (~a.ok /\ req.kind = "invite") => About(req.success, a.email) = {}]_vars

\* a later invite of an email was rejected after its mail had failed and its
\* token had been redeemed
C19_Witness ==
    \E req \in Active, a \in mailLog :
        /\ req.kind = "invite"
        /\ req.pc = "done"
        /\ ~a.ok
        /\ \E m \in Range(req.error) : m.kind = "already invited" /\ m.email = a.email
        /\ \E row \in RowsById(feedback, a.id) : row.submitted

\* C20: send_invite issues a token for a string that is no address (the
\* empty string), and sends its mail; such a token is never redeemed: its
\* flag stays FALSE, no record is stored for it, and no request for it
\* waits for its commit or is acknowledged.
C20_InvalidAddressNeverRedeemed ==
    /\ \A row \in feedback :
          row.email = ""
             => /\ ~row.submitted
                /\ RowsById(userFeedback, row.id) = {}
                /\ \A a \in BagToSet(acked) : a.uuid # row.id
                /\ \A req \in Active :
                      (req.kind = "submit" /\ req.has /\ req.uuid = row.id)
                         => req.pc = "done" /\ req.message = "InvalidRecipient"
    /\ \A req \in Active :
          (req.kind = "invite" /\ req.pc = "send" /\ req.emails[req.i].v = "")
             => \E row \in RowsById(feedback, req.feedback_id) : row.email = ""

\* the mail of a token issued for the empty string was sent, and a redeem of
\* the token has been refused
C20_Witness ==
    \E req \in Active, a \in mailLog :
        /\ req.kind = "submit"
        /\ req.message = "InvalidRecipient"
        /\ a.ok
        /\ a.email = ""
        /\ a.id = req.uuid

====
